---------------------------- MODULE Spec2Model ----------------------------
(***************************************************************************)
(* rusticdb-core: the write-ahead log (wal.rs), the page cache             *)
(* (page_cache.rs) and the pager (pager.rs), as state machines.            *)
(*                                                                         *)
(* Files are sequences of bytes (0..255).  A u32 that is only compared for *)
(* equality (the magic, a CRC) is kept as its four little-endian bytes,    *)
(* because TLC's integers stop at 2^31 - 1.                                *)
(***************************************************************************)
EXTENDS Integers, Sequences, FiniteSets, TLC

(***************************************************************************)
(* Bounds.  wal.rs:7 sets WAL_PAGE_SIZE to 4096 and pager.rs:6 sets        *)
(* PAGE_SIZE to 4096; the model keeps the 29 bytes of frame overhead at    *)
(* their real offsets and widths and scales the frame and the page down.   *)
(* A frame must hold the 8 bytes of a checkpoint's payload in one chunk,   *)
(* as it does in the code, so WAL_PAGE_SIZE >= 37.                         *)
(***************************************************************************)
WAL_PAGE_SIZE == 37

MaxChunks == 3

\* append and append_checkpoint calls per log
MaxAppends == 3

\* append and append_checkpoint calls per log of which a frame is made invalid
MaxCorruptCalls == 2

\* append and append_checkpoint calls per log that is replayed from a later offset
MaxOffsetCalls == 3

\* completed append and append_checkpoint calls per log with an interrupted append
MaxCrashCalls == 2

\* the pager's page, in bytes
PAGE_SIZE == 2

\* the pages got through the cache are 1..MaxPage
MaxPage == 3

\* PageCache::new(pager, capacity) with capacity in 0..MaxCapacity
MaxCapacity == 2

\* where the caller keeps handles and writes through them, the pages are
\* 1..MaxDataPage and the capacity is in 0..MaxDataCapacity
MaxDataPage == 2

MaxDataCapacity == 2

\* the pager on its own has pages 0..MaxPagerPage
MaxPagerPage == 1

\* in-place writes the caller makes through its handles
MaxWrites == 2

\* handles the caller keeps at a time
MaxHandles == 1

(***************************************************************************)
(* Helpers on byte sequences.                                              *)
(***************************************************************************)
Min(a, b) == IF a < b THEN a ELSE b

Max(a, b) == IF a > b THEN a ELSE b

Zeros(n) == SubSeq([i \in 1..n |-> 0], 1, n)

\* v.to_le_bytes() for an n-byte unsigned integer
RECURSIVE to_le_bytes(_, _)
to_le_bytes(v, n) ==
    IF n = 0 THEN <<>> ELSE <<v % 256>> \o to_le_bytes(v \div 256, n - 1)

\* uN::from_le_bytes(b)
RECURSIVE from_le_bytes(_)
from_le_bytes(b) ==
    IF b = <<>> THEN 0 ELSE Head(b) + 256 * from_le_bytes(Tail(b))

RECURSIVE concat(_)
concat(chunks) ==
    IF chunks = <<>> THEN <<>> ELSE Head(chunks) \o concat(Tail(chunks))

(***************************************************************************)
(* crc32fast::Hasher: CRC-32 (IEEE 802.3), reflected, polynomial           *)
(* 0xEDB88320, initial value and final xor 0xFFFFFFFF, computed a byte at  *)
(* a time from the table of the 256 byte remainders.  The 32-bit register  *)
(* is the pair <<low 16 bits, high 16 bits>>.                              *)
(***************************************************************************)
\* 0xEDB88320 as <<low half, high half>> = <<0x8320, 0xEDB8>>
CRC_POLY == <<33568, 60856>>

\* a ^ b on naturals
RECURSIVE Xor(_, _)
Xor(a, b) ==
    IF a = 0 THEN b
    ELSE IF b = 0 THEN a
    ELSE ((a + b) % 2) + 2 * Xor(a \div 2, b \div 2)

U16 == 0..65535

\* one bit of the register: (reg >> 1) ^ (POLY if reg & 1)
CrcShift[reg \in U16 \X U16] ==
    LET lo == (reg[1] \div 2) + 32768 * (reg[2] % 2)
        hi == reg[2] \div 2
    IN  IF reg[1] % 2 = 1
        THEN <<Xor(lo, CRC_POLY[1]), Xor(hi, CRC_POLY[2])>>
        ELSE <<lo, hi>>

\* the remainder of each byte value after eight shifts; entry b + 1 is byte b's
CrcTable ==
    SubSeq([k \in 1..256 |->
                CrcShift[CrcShift[CrcShift[CrcShift[CrcShift[CrcShift[CrcShift[CrcShift[
                    <<k - 1, 0>>]]]]]]]]], 1, 256)

\* one byte: table[(reg ^ b) & 0xFF] ^ (reg >> 8)
CrcByte[reg \in U16 \X U16, b \in 0..255] ==
    LET t == CrcTable[Xor(reg[1] % 256, b) + 1]
    IN  <<Xor((reg[1] \div 256) + 256 * (reg[2] % 256), t[1]), Xor(reg[2] \div 256, t[2])>>

RECURSIVE CrcUpdate(_, _)
CrcUpdate(reg, data) ==
    IF data = <<>> THEN reg ELSE CrcUpdate(CrcByte[reg, Head(data)], Tail(data))

\* hasher.update(data); hasher.finalize().to_le_bytes()
crc32(data) ==
    LET reg == CrcUpdate(<<65535, 65535>>, data)
        lo == 65535 - reg[1]
        hi == 65535 - reg[2]
    IN  <<lo % 256, lo \div 256, hi % 256, hi \div 256>>

(***************************************************************************)
(* State.                                                                  *)
(*   walFile       the bytes of the log file                               *)
(*   walPc         "open", "replayed" once replay_from_offset returned, or *)
(*                 "crashed" until the file is opened again                *)
(*   replayOffset  the offset of the last replay                           *)
(*   replayResult  what the last replay returned                           *)
(*   seen          the callback's invocations in the last replay, in order *)
(* History variables, read by no operation:                                *)
(*   appended      the <<page_id, data>> of every completed Wal::append    *)
(*   frameRec      per frame of walFile, the index in appended of the      *)
(*                 record it belongs to; 0 for a checkpoint frame, -1 for  *)
(*                 what an interrupted append left                         *)
(*   badFrame      the frame made invalid in the file, 0 if none           *)
(*   saved         None, or Some of the offset the caller got from         *)
(*                 current_offset and remembers, with the number of        *)
(*                 records appended before it                              *)
(*   torn          None, or Some of the append a crash interrupted: its    *)
(*                 page and data, the records completed before it, the     *)
(*                 bytes it wrote and whether they end with a frame        *)
(***************************************************************************)
VARIABLES walFile, walPc, replayOffset, replayResult, seen, appended, frameRec, badFrame,
          saved, torn

walVars ==
    <<walFile, walPc, replayOffset, replayResult, seen, appended, frameRec, badFrame,
      saved, torn>>

(***************************************************************************)
(*   pagerFile   the bytes of the pager's file                             *)
(*   pageRead    the last read_page call made on the pager and its buffer  *)
(*   capacity    PageCache.capacity                                        *)
(*   cache       PageCache.cache: page_id -> the Rc, a key of heap         *)
(*   heap        the live RefCell buffers: Rc -> [u8; PAGE_SIZE]           *)
(*   dirty_flag  the keys of PageCache.dirty_flag (every value is true)    *)
(*   lru         PageCache.lru, least recently used first                  *)
(*   handles     the handles the caller holds: [page_id, rc], with two     *)
(*               history fields, evicted and stage                         *)
(*   cachePc     "idle", or "evict" inside get_page's evict_if_necessary   *)
(*   pending     the miss being served while cachePc = "evict"; its fields *)
(*               recency0 and dirty0 (recency and dirty_flag at the call), *)
(*               lru0 (the queue when the scan began) and requeued (the    *)
(*               parity of the victims pushed back so far) are history     *)
(*   last        the last call that returned and its result; page and rc   *)
(*               are those of a get_page whose handle the caller looks at  *)
(* History variables, read by no operation:                                *)
(*   written     page -> the buffer of its last Pager::write_page call     *)
(*   reopened    the store has been closed and opened again                *)
(*   writes      the in-place writes the caller has made                   *)
(*   recency     the cached pages, the least recently got first            *)
(*   everDirty   mark_dirty has been called                                *)
(*   h.evicted   the page left the cache after the handle was returned     *)
(*   h.stage     "got" from get_page, "mutated" once written through,      *)
(*               "marked" once mark_dirty followed; "old" after a flush    *)
(*               or when another get_page came before the mark_dirty       *)
(***************************************************************************)
VARIABLES pagerFile, pageRead, reopened, capacity, cache, heap, dirty_flag, lru, handles,
          cachePc, pending, last, written, writes, recency, everDirty

(***************************************************************************)
(* The pager under two threads:                                            *)
(*   fileLock   the thread that holds the Mutex<File>, 0 if none           *)
(*   filePos    the cursor of the File                                     *)
(*   threads    per thread, its call: pc is "idle", "lock" (waits for the  *)
(*              lock), "seek", "io" or "ret"; op, page_id and data are the *)
(*              call's; buffer is what a read_page read                    *)
(* History fields of a thread's call, read by no operation:                *)
(*   views      the contents page page_id has had since the call began     *)
(*   landed     the cursor at which a write_page wrote                     *)
(***************************************************************************)
VARIABLES fileLock, filePos, threads

threadVars == <<fileLock, filePos, threads>>

pagerVars == <<pagerFile, pageRead, written, reopened, threadVars>>

cacheVars == <<capacity, cache, heap, dirty_flag, lru, handles, cachePc, pending, writes,
               recency, everDirty>>

vars == <<walVars, pagerVars, cacheVars, last>>

(***************************************************************************)
(* wal.rs                                                                  *)
(***************************************************************************)
\* 0xC0DECAFE.to_le_bytes()
WAL_MAGIC == <<254, 202, 222, 192>>

\* enum FrameType
Data == 0

Checkpoint == 1

chunk_size == WAL_PAGE_SIZE - 29

\* a chunk count that is one too many for a payload of whole chunks
total_chunks_rounded_wrong(data) == (Len(data) \div chunk_size) + 1

total_chunks_of(data) == (Len(data) + chunk_size - 1) \div chunk_size

\* the i-th (0-based) chunk of data: &data[offset..end]
chunk_of(data, i) ==
    LET offset == i * chunk_size
        end == Min(offset + chunk_size, Len(data))
    IN  SubSeq(data, offset + 1, end)

\* the buffer append_internal writes for chunk i
frame_buffer(ftype, page_id, i, total_chunks, chunk) ==
    <<ftype>> \o WAL_MAGIC \o to_le_bytes(page_id, 8) \o to_le_bytes(i, 4)
        \o to_le_bytes(total_chunks, 4) \o to_le_bytes(Len(chunk), 4)
        \o chunk \o crc32(chunk) \o Zeros(WAL_PAGE_SIZE - 29 - Len(chunk))

RECURSIVE write_frames(_, _, _, _, _)
write_frames(ftype, page_id, data, i, n) ==
    IF i >= n THEN <<>>
    ELSE frame_buffer(ftype, page_id, i, total_chunks_of(data), chunk_of(data, i))
            \o write_frames(ftype, page_id, data, i + 1, n)

\* the file after append_internal returned Ok (the file is opened in append mode)
append_internal(file, ftype, page_id, data) ==
    file \o write_frames(ftype, page_id, data, 0, Max(total_chunks_of(data), 1))

frames_written(data) == Max(total_chunks_of(data), 1)

\* Option<usize>
None == <<>>

Some(x) == <<x>>

all_non_empty(collected) == \A k \in 1..Len(collected) : collected[k] # <<>>

\* file.read(&mut page): the bytes read overwrite the head of page, the rest stays
read_into(file, pos, page) ==
    LET n == IF pos >= Len(file) THEN 0 ELSE Min(WAL_PAGE_SIZE, Len(file) - pos)
    IN  [n |-> n,
         page |-> SubSeq(file, pos + 1, pos + n) \o SubSeq(page, n + 1, WAL_PAGE_SIZE)]

\* an append that a crash stops after `cut` bytes of its frames reached the file
append_interrupted(file, page_id, data, cut) ==
    file \o SubSeq(write_frames(Data, page_id, data, 0, frames_written(data)), 1, cut)

\* a replay that does not compare the checksums
crc_unchecked(data, expected_crc) == TRUE

\* the payload's CRC is the one stored behind it
crc_ok(data, expected_crc) == crc32(data) = expected_crc

\* a replay that starts a record only when it is reassembling none
starts_record_if_idle(st, page_id) == st.current_page_id = None

\* current_page_id != Some(page_id): the frame starts the reassembly of a record
starts_record(st, page_id) == st.current_page_id # Some(page_id)

\* one Data frame into the reassembly state st
on_data_frame(st, page_id, chunk_id, total_chunks, data) ==
    LET reset == starts_record(st, page_id)
        expected == IF reset THEN total_chunks ELSE st.expected_chunks
        fresh == IF reset THEN [k \in 1..total_chunks |-> <<>>] ELSE st.collected_chunks
        collected == IF chunk_id < expected
                     THEN [fresh EXCEPT ![chunk_id + 1] = data]
                     ELSE fresh
    IN  IF all_non_empty(collected)
        THEN [current_page_id |-> None, expected_chunks |-> expected,
              collected_chunks |-> collected,
              seen |-> Append(st.seen, <<page_id, concat(collected)>>)]
        ELSE [current_page_id |-> Some(page_id), expected_chunks |-> expected,
              collected_chunks |-> collected, seen |-> st.seen]

\* the loop of replay_from_offset, from file position pos
RECURSIVE replay_loop(_, _, _, _)
replay_loop(file, pos, page0, st) ==
    LET rd == read_into(file, pos, page0)
        n == rd.n
        page == rd.page
        magic == SubSeq(page, 2, 5)
        page_id == from_le_bytes(SubSeq(page, 6, 13))
        chunk_id == from_le_bytes(SubSeq(page, 14, 17))
        total_chunks == from_le_bytes(SubSeq(page, 18, 21))
        data_len == from_le_bytes(SubSeq(page, 22, 25))
        data == SubSeq(page, 26, 25 + data_len)
        expected_crc == SubSeq(page, 26 + data_len, 29 + data_len)
    IN  IF n = 0 THEN st
        ELSE IF n < 29 THEN st
        ELSE IF page[1] \notin {Data, Checkpoint} THEN st
        ELSE IF magic # WAL_MAGIC THEN st
        ELSE IF 25 + data_len + 4 > WAL_PAGE_SIZE THEN st
        ELSE IF ~crc_ok(data, expected_crc) THEN st
        ELSE IF page[1] = Data
             THEN replay_loop(file, pos + n, page,
                              on_data_frame(st, page_id, chunk_id, total_chunks, data))
             ELSE replay_loop(file, pos + n, page, st)

\* a current_offset that answers the start of the file
current_offset_start(file) == 0

\* replay_from_offset(offset, callback): every break leaves the loop to Ok(())
replay_from_offset(file, offset) ==
    LET st == replay_loop(file, offset, Zeros(WAL_PAGE_SIZE),
                          [current_page_id |-> None, expected_chunks |-> 0,
                           collected_chunks |-> <<>>, seen |-> <<>>])
    IN  [result |-> "Ok", seen |-> st.seen]

\* current_offset(): the end of the file
current_offset(file) == Len(file)

(***************************************************************************)
(* The inputs of the log's operations.                                     *)
(***************************************************************************)
\* a payload of length n whose bytes differ by position (the first is 0)
Payload(n) == SubSeq([i \in 1..n |-> (i - 1) % 256], 1, n)

PayloadLens ==
    {0, 1, chunk_size - 1, chunk_size, chunk_size + 1, MaxChunks * chunk_size}

WalPages == {1, 2}

NumFrames == Len(walFile) \div WAL_PAGE_SIZE

\* the append and append_checkpoint calls made so far
WalCalls == Len(appended) + Cardinality({k \in DOMAIN frameRec : frameRec[k] = 0})

\* the 0-based offset in the file of byte at of frame f (frames count from 1)
FrameByte(f, at) == (f - 1) * WAL_PAGE_SIZE + at + 1

\* the payload length stored in frame f of the file
StoredLen(file, f) == from_le_bytes(SubSeq(file, FrameByte(f, 21), FrameByte(f, 24)))

\* the ways one frame is made invalid: the bytes put at offset at of the frame
BadBytes(file, f) ==
    LET len == StoredLen(file, f)
        flip(at) == [at |-> at, bytes |-> <<(file[FrameByte(f, at)] + 1) % 256>>]
    IN  \* a byte of the CRC field
        {flip(25 + len + j) : j \in {0, 3}}
        \* a byte of the payload, which the stored CRC no longer matches
        \cup {flip(25 + j) : j \in {len - 1} \cap (0..(len - 1))}
        \* a frame kind that is neither Data nor Checkpoint
        \cup {[at |-> 0, bytes |-> <<2>>]}
        \* a byte of the magic
        \cup {flip(1 + j) : j \in {3}}
        \* a payload length that runs over the end of the frame
        \cup {[at |-> 21, bytes |-> to_le_bytes(chunk_size + 1, 4)]}

Overwrite(file, pos, bytes) ==
    SubSeq(file, 1, pos - 1) \o bytes \o SubSeq(file, pos + Len(bytes), Len(file))

(***************************************************************************)
(* Operations on the log.                                                  *)
(***************************************************************************)
WalInit ==
    /\ walFile = <<>>
    /\ walPc = "open"
    /\ replayOffset = 0
    /\ replayResult = "none"
    /\ seen = <<>>
    /\ appended = <<>>
    /\ frameRec = <<>>
    /\ badFrame = 0
    /\ saved = <<>>
    /\ torn = <<>>

\* wal.append(page_id, data) returns Ok
WalAppend(page_id, data) ==
    /\ walPc # "crashed"
    /\ badFrame = 0
    /\ WalCalls < MaxAppends
    /\ walFile' = append_internal(walFile, Data, page_id, data)
    /\ appended' = Append(appended, <<page_id, data>>)
    /\ frameRec' = frameRec \o [k \in 1..frames_written(data) |-> Len(appended) + 1]
    /\ walPc' = "open"
    /\ seen' = <<>>
    /\ replayResult' = "none"
    /\ UNCHANGED <<replayOffset, badFrame, saved, torn, pagerVars, cacheVars, last>>

\* wal.append_checkpoint(last_offset) returns Ok
WalAppendCheckpoint(last_offset) ==
    /\ walPc # "crashed"
    /\ badFrame = 0
    /\ WalCalls < MaxAppends
    /\ walFile' = append_internal(walFile, Checkpoint, 0, to_le_bytes(last_offset, 8))
    /\ frameRec' = Append(frameRec, 0)
    /\ walPc' = "open"
    /\ seen' = <<>>
    /\ replayResult' = "none"
    /\ UNCHANGED <<replayOffset, appended, badFrame, saved, torn, pagerVars, cacheVars,
                   last>>

\* wal.replay_from_offset(offset, |pid, data| seen.push((pid, data)))
WalReplay(offset) ==
    /\ walPc = "open"
    /\ LET r == replay_from_offset(walFile, offset)
       IN  /\ seen' = r.seen
           /\ replayResult' = r.result
    /\ replayOffset' = offset
    /\ walPc' = "replayed"
    /\ UNCHANGED <<walFile, appended, frameRec, badFrame, saved, torn, pagerVars,
                   cacheVars, last>>

\* the environment makes exactly one frame of the file invalid
WalCorrupt(f) ==
    /\ walPc = "open"
    /\ badFrame = 0
    /\ f \in 1..NumFrames
    /\ \E bad \in BadBytes(walFile, f) :
            walFile' = Overwrite(walFile, FrameByte(f, bad.at), bad.bytes)
    /\ badFrame' = f
    /\ UNCHANGED <<walPc, replayOffset, replayResult, seen, appended, frameRec, saved,
                   torn, pagerVars, cacheVars, last>>

\* wal.current_offset() returns Ok(offset) and the caller remembers the offset
WalCurrentOffset ==
    /\ walPc = "open"
    /\ saved = <<>>
    /\ saved' = Some([offset |-> current_offset(walFile), records |-> Len(appended)])
    /\ UNCHANGED <<walFile, walPc, replayOffset, replayResult, seen, appended, frameRec,
                   badFrame, torn, pagerVars, cacheVars, last>>

\* the bytes of a frame a crash may leave when it stops inside the frame
PartialCuts == {30}

\* the numbers of bytes an interrupted append(page_id, data) may have written:
\* some of its frames but not all, or some frames and part of the next
Cuts(data) ==
    {k * WAL_PAGE_SIZE : k \in 1..(frames_written(data) - 1)}
        \cup {k * WAL_PAGE_SIZE + j : k \in 0..(frames_written(data) - 1), j \in PartialCuts}

\* the process dies inside wal.append(page_id, data), after cut bytes
WalCrashAppend(page_id, data, cut) ==
    /\ walPc # "crashed"
    /\ badFrame = 0
    /\ torn = None
    /\ cut \in Cuts(data)
    /\ walFile' = append_interrupted(walFile, page_id, data, cut)
    /\ torn' = Some([page_id |-> page_id, data |-> data, records |-> Len(appended),
                     cut |-> cut,
                     aligned |-> cut % WAL_PAGE_SIZE = 0])
    /\ frameRec' = frameRec
                     \o [k \in 1..((cut + WAL_PAGE_SIZE - 1) \div WAL_PAGE_SIZE) |-> -1]
    /\ walPc' = "crashed"
    /\ seen' = <<>>
    /\ replayResult' = "none"
    /\ UNCHANGED <<replayOffset, appended, badFrame, saved, pagerVars, cacheVars, last>>

\* Wal::open(path) on the file the crash left
WalReopen ==
    /\ walPc = "crashed"
    /\ walPc' = "open"
    /\ UNCHANGED <<walFile, replayOffset, replayResult, seen, appended, frameRec,
                   badFrame, saved, torn, pagerVars, cacheVars, last>>

WalNext ==
    \/ \E page_id \in WalPages, n \in PayloadLens : WalAppend(page_id, Payload(n))
    \/ WalAppendCheckpoint(current_offset(walFile))
    \/ WalReplay(0)

\* the payload lengths of the logs of which a frame is made invalid
CorruptLens == {0, 1, chunk_size, chunk_size + 1, MaxChunks * chunk_size}

WalCorruptNext ==
    \/ \E page_id \in WalPages, n \in CorruptLens :
          WalCalls < MaxCorruptCalls /\ WalAppend(page_id, Payload(n))
    \/ WalCalls < MaxCorruptCalls /\ WalAppendCheckpoint(current_offset(walFile))
    \/ WalReplay(0)
    \/ \E f \in 1..NumFrames : WalCorrupt(f)

\* the payload lengths of the logs replayed from a later offset
OffsetLens == {1, chunk_size + 1, MaxChunks * chunk_size}

\* the offsets of the frames of the file, and its end
FrameOffsets == {k * WAL_PAGE_SIZE : k \in 0..NumFrames}

\* the log, an offset the caller remembers, and replays from that offset
WalOffsetNext ==
    \/ \E page_id \in WalPages, n \in OffsetLens :
          WalCalls < MaxOffsetCalls /\ WalAppend(page_id, Payload(n))
    \/ \E last_offset \in {current_offset(walFile)} \cup {saved[k].offset : k \in DOMAIN saved} :
          WalCalls < MaxOffsetCalls /\ WalAppendCheckpoint(last_offset)
    \/ WalCurrentOffset
    \/ \E k \in DOMAIN saved : WalReplay(saved[k].offset)

\* the log and replays from the offset of any frame
WalAnyOffsetNext ==
    \/ \E page_id \in WalPages, n \in OffsetLens :
          WalCalls < MaxOffsetCalls /\ WalAppend(page_id, Payload(n))
    \/ WalCalls < MaxOffsetCalls /\ WalAppendCheckpoint(current_offset(walFile))
    \/ \E offset \in FrameOffsets : WalReplay(offset)

\* the payload lengths of the logs an interrupted append is part of
CrashLens == {0, 1, chunk_size + 1}

\* the log, written by appends of which one is interrupted by a crash
WalCrashNext ==
    \/ \E page_id \in WalPages, n \in CrashLens :
          WalCalls < MaxCrashCalls /\ WalAppend(page_id, Payload(n))
    \/ WalCalls < MaxCrashCalls /\ WalAppendCheckpoint(current_offset(walFile))
    \/ \E page_id \in WalPages, n \in CrashLens :
          \E cut \in Cuts(Payload(n)) : WalCrashAppend(page_id, Payload(n), cut)
    \/ WalReopen
    \/ WalReplay(0)

(***************************************************************************)
(* pager.rs.  Every call seeks to its own offset before it reads or        *)
(* writes, under the file's lock, so the file's cursor is no state here.   *)
(* A page index is one whose byte offset is a file position.               *)
(***************************************************************************)
\* read_page(page_id): a zeroed buffer over which the bytes the file has are read
read_page(file, page_id) ==
    LET offset == page_id * PAGE_SIZE
        n == IF offset >= Len(file) THEN 0 ELSE Min(PAGE_SIZE, Len(file) - offset)
    IN  SubSeq(file, offset + 1, offset + n) \o Zeros(PAGE_SIZE - n)

\* write_page(page_id, data) returning Ok: the file is zero-filled up to the offset
write_page(file, page_id, data) ==
    LET offset == page_id * PAGE_SIZE
        base == IF Len(file) < offset THEN file \o Zeros(offset - Len(file)) ELSE file
    IN  SubSeq(base, 1, offset) \o data \o SubSeq(base, offset + PAGE_SIZE + 1, Len(base))

\* file.read(&mut buffer) at the cursor, into a zeroed buffer
read_at(file, pos) ==
    LET n == IF pos >= Len(file) THEN 0 ELSE Min(PAGE_SIZE, Len(file) - pos)
    IN  SubSeq(file, pos + 1, pos + n) \o Zeros(PAGE_SIZE - n)

\* file.write_all(data) at the cursor
write_at(file, pos, data) ==
    LET base == IF Len(file) < pos THEN file \o Zeros(pos - Len(file)) ELSE file
    IN  SubSeq(base, 1, pos) \o data \o SubSeq(base, pos + Len(data) + 1, Len(base))

\* the two threads that share the Pager
Threads == {1, 2}

IdleThread ==
    [pc |-> "idle", op |-> "none", page_id |-> 0, data |-> <<>>, buffer |-> <<>>,
     views |-> {}, landed |-> 0]

(***************************************************************************)
(* page_cache.rs                                                           *)
(***************************************************************************)
CachePages == 1..MaxPage

Cached == DOMAIN cache

Elems(q) == {q[k] : k \in 1..Len(q)}

\* self.dirty_flag.get(&page_id).copied().unwrap_or(false)
is_dirty(page_id) == page_id \in dirty_flag

\* an eviction that does not look at the dirty flag
evictable_whatever(victim) == TRUE

\* evict_if_necessary removes this victim rather than requeueing it
evictable(victim) == ~is_dirty(victim)

\* Rc::new: a buffer no live Rc names (the first free of page_id, page_id + MaxPage, ..)
NewRc(page_id) ==
    CHOOSE r \in {page_id + MaxPage * j : j \in 0..Cardinality(DOMAIN heap)} :
        /\ r \notin DOMAIN heap
        /\ \A j \in 0..Cardinality(DOMAIN heap) :
              page_id + MaxPage * j \notin DOMAIN heap => r <= page_id + MaxPage * j

\* a hit that copies the buffer instead of cloning the Rc
hit_rc_copied(page_id) == NewRc(page_id)

\* the Rc get_page returns on a hit: page.clone()
hit_rc(page_id) == cache[page_id]

\* the buffers some Rc still names: the cache's and the caller's
Live(c, hs) == {c[p] : p \in DOMAIN c} \cup {h.rc : h \in hs}

Restrict(f, S) == [x \in S \cap DOMAIN f |-> f[x]]

\* self.lru.iter().position(..) then self.lru.remove(pos): the first occurrence
remove_first(q, page_id) ==
    IF \E k \in 1..Len(q) : q[k] = page_id
    THEN LET pos == CHOOSE k \in 1..Len(q) :
                        q[k] = page_id /\ \A j \in 1..(k - 1) : q[j] # page_id
         IN  SubSeq(q, 1, pos - 1) \o SubSeq(q, pos + 1, Len(q))
    ELSE q

\* a hit that leaves the queue as it is
promote_nothing(q, page_id) == q

\* a hit that pushes the page without removing its old position
promote_pushed(q, page_id) == Append(q, page_id)

\* the queue after a hit on page_id
promote(q, page_id) == Append(remove_first(q, page_id), page_id)

Handle(page_id, rc, evicted) ==
    [page_id |-> page_id, rc |-> rc, evicted |-> evicted, stage |-> "got"]

\* the caller keeps the handle when it has room for it
Keep(hs, h, keep) == IF keep /\ Cardinality(hs \cup {h}) <= MaxHandles THEN hs \cup {h} ELSE hs

\* another get_page comes before the mark_dirty of a handle got or mutated
Interrupted(hs) ==
    {IF h.stage \in {"got", "mutated"} THEN [h EXCEPT !.stage = "old"] ELSE h : h \in hs}

Returned(op, page_id, rc, keep) ==
    [op |-> op, result |-> "Ok", page |-> IF keep THEN page_id ELSE 0,
     rc |-> IF keep THEN rc ELSE 0]

Call(op, result) == [op |-> op, result |-> result, page |-> 0, rc |-> 0]

PagerInit ==
    /\ pagerFile = <<>>
    /\ pageRead = <<>>
    /\ written = <<>>
    /\ reopened = FALSE
    /\ fileLock = 0
    /\ filePos = 0
    /\ threads = [t \in Threads |-> IdleThread]

CacheInit(capacities) ==
    /\ capacity \in capacities
    /\ cache = <<>>
    /\ heap = <<>>
    /\ dirty_flag = {}
    /\ lru = <<>>
    /\ handles = {}
    /\ cachePc = "idle"
    /\ pending = <<>>
    /\ last = Call("new", "Ok")
    /\ writes = 0
    /\ recency = <<>>
    /\ everDirty = FALSE

\* get_page(page_id), the page is cached: promote it and clone the Rc
GetPageHit(page_id, keep) ==
    /\ cachePc = "idle"
    /\ page_id \in Cached
    /\ lru' = promote(lru, page_id)
    /\ recency' = Append(remove_first(recency, page_id), page_id)
    /\ handles' = Keep(Interrupted(handles), Handle(page_id, hit_rc(page_id), FALSE), keep)
    /\ heap' = Restrict(heap, Live(cache, handles'))
    /\ last' = Returned("get_page_hit", page_id, hit_rc(page_id), keep)
    /\ UNCHANGED <<walVars, pagerVars, capacity, cache, dirty_flag, cachePc, pending,
                   writes, everDirty>>

\* get_page(page_id), the page is not cached: read it, insert it, push it on the
\* queue and enter evict_if_necessary
GetPageMiss(page_id, keep) ==
    /\ cachePc = "idle"
    /\ page_id \notin Cached
    /\ LET rc == NewRc(page_id)
       IN  /\ heap' = (rc :> read_page(pagerFile, page_id)) @@ heap
           /\ cache' = (page_id :> rc) @@ cache
           /\ pending' = [page_id |-> page_id, rc |-> rc, keep |-> keep,
                          recency0 |-> recency, lru0 |-> Append(lru, page_id),
                          dirty0 |-> dirty_flag, requeued |-> 0]
    /\ lru' = Append(lru, page_id)
    /\ recency' = Append(recency, page_id)
    /\ handles' = Interrupted(handles)
    /\ cachePc' = "evict"
    /\ UNCHANGED <<walVars, pagerVars, capacity, dirty_flag, last, writes, everDirty>>

\* get_page(page_id), the page is not cached and pager.read_page fails
GetPageErr(page_id) ==
    /\ cachePc = "idle"
    /\ page_id \notin Cached
    /\ last' = Call("get_page_miss", "Err")
    /\ UNCHANGED <<walVars, pagerVars, cacheVars>>

\* one iteration of evict_if_necessary's loop: the front of the queue is requeued
\* when dirty, removed from the cache otherwise
EvictStep ==
    /\ cachePc = "evict"
    /\ Cardinality(Cached) > capacity
    /\ lru # <<>>
    /\ LET victim == Head(lru)
       IN  IF ~evictable(victim)
           THEN /\ lru' = Append(Tail(lru), victim)
                /\ pending' = [pending EXCEPT !.requeued = 1 - @]
                /\ UNCHANGED <<cache, heap, dirty_flag, handles, recency>>
           ELSE /\ lru' = Tail(lru)
                /\ cache' = Restrict(cache, Cached \ {victim})
                /\ handles' = {IF h.page_id = victim THEN [h EXCEPT !.evicted = TRUE] ELSE h :
                                  h \in handles}
                /\ heap' = Restrict(heap, Live(cache', handles' \cup {pending}))
                /\ dirty_flag' = dirty_flag \ {victim}
                /\ recency' = remove_first(recency, victim)
                /\ UNCHANGED pending
    /\ UNCHANGED <<walVars, pagerVars, capacity, cachePc, last, writes, everDirty>>

\* the loop of evict_if_necessary ends and get_page returns Ok(page_rc)
GetPageReturn ==
    /\ cachePc = "evict"
    /\ (Cardinality(Cached) <= capacity \/ lru = <<>>)
    /\ cachePc' = "idle"
    /\ handles' = Keep(handles, Handle(pending.page_id, pending.rc,
                                       pending.page_id \notin Cached), pending.keep)
    /\ heap' = Restrict(heap, Live(cache, handles'))
    /\ last' = Returned("get_page_miss", pending.page_id, pending.rc, pending.keep)
    /\ pending' = <<>>
    /\ UNCHANGED <<walVars, pagerVars, capacity, cache, dirty_flag, lru, writes, recency,
                   everDirty>>

\* mark_dirty(page_id)
MarkDirty(page_id) ==
    /\ cachePc = "idle"
    /\ dirty_flag' = dirty_flag \cup {page_id}
    /\ handles' = {IF h.page_id = page_id /\ h.stage = "mutated"
                   THEN [h EXCEPT !.stage = "marked"] ELSE h : h \in handles}
    /\ everDirty' = TRUE
    /\ last' = Call("mark_dirty", "Ok")
    /\ UNCHANGED <<walVars, pagerVars, capacity, cache, heap, lru, cachePc, pending,
                   writes, recency>>

\* a flush that writes the first dirty page of the queue only
flush_order_first(q) ==
    LET dirty == {k \in 1..Len(q) : q[k] \in Cached /\ q[k] \in dirty_flag}
    IN  IF dirty = {} THEN <<>> ELSE <<q[CHOOSE k \in dirty : \A j \in dirty : k <= j]>>

\* a flush that walks the queue from its back
RECURSIVE flush_order_reversed(_)
flush_order_reversed(q) ==
    IF q = <<>> THEN <<>>
    ELSE IF q[Len(q)] \in Cached /\ q[Len(q)] \in dirty_flag
         THEN <<q[Len(q)]>> \o flush_order_reversed(SubSeq(q, 1, Len(q) - 1))
         ELSE flush_order_reversed(SubSeq(q, 1, Len(q) - 1))

\* the pages flush writes, in the queue's order
RECURSIVE flush_order(_)
flush_order(q) ==
    IF q = <<>> THEN <<>>
    ELSE IF Head(q) \in Cached /\ Head(q) \in dirty_flag
         THEN <<Head(q)>> \o flush_order(Tail(q))
         ELSE flush_order(Tail(q))

\* the file after flush wrote the pages of order, each from its buffer
RECURSIVE flush_writes(_, _)
flush_writes(file, order) ==
    IF order = <<>> THEN file
    ELSE flush_writes(write_page(file, Head(order), heap[cache[Head(order)]]), Tail(order))

\* flush(): fail_at = 0 when every write_page returns Ok; otherwise the
\* fail_at-th write fails, having written nothing, and flush returns its error
Flush(fail_at) ==
    /\ cachePc = "idle"
    /\ LET order == flush_order(lru)
           done == IF fail_at = 0 THEN order ELSE SubSeq(order, 1, fail_at - 1)
       IN  /\ fail_at <= Len(order)
           /\ pagerFile' = flush_writes(pagerFile, done)
           /\ dirty_flag' = IF fail_at = 0 THEN {} ELSE dirty_flag \ Elems(done)
           /\ last' = Call("flush", IF fail_at = 0 THEN "Ok" ELSE "Err")
           /\ handles' = IF fail_at = 0
                         THEN {[h EXCEPT !.stage = "old"] : h \in handles}
                         ELSE handles
    /\ UNCHANGED <<walVars, pageRead, written, reopened, threadVars, capacity, cache, heap,
                   lru, cachePc, pending, writes, recency, everDirty>>

\* the caller writes byte v at index k of the buffer of a handle it holds:
\* page.borrow_mut()[k] = v
HandleWrite(h, k, v) ==
    /\ cachePc = "idle"
    /\ h \in handles
    /\ writes < MaxWrites
    /\ heap' = [heap EXCEPT ![h.rc][k] = v]
    /\ handles' = (handles \ {h})
                    \cup {[h EXCEPT !.stage = IF h.stage = "got" THEN "mutated" ELSE h.stage]}
    /\ writes' = writes + 1
    /\ UNCHANGED <<walVars, pagerVars, capacity, cache, dirty_flag, lru, cachePc, pending,
                   last, recency, everDirty>>

\* the caller drops a handle
HandleDrop(h) ==
    /\ cachePc = "idle"
    /\ h \in handles
    /\ handles' = handles \ {h}
    /\ heap' = Restrict(heap, Live(cache, handles'))
    /\ UNCHANGED <<walVars, pagerVars, capacity, cache, dirty_flag, lru, cachePc, pending,
                   last, writes, recency, everDirty>>

\* the calls of the cache, the caller keeping no handle
CacheNext ==
    \/ \E page_id \in CachePages : GetPageHit(page_id, FALSE)
    \/ \E page_id \in CachePages : GetPageMiss(page_id, FALSE)
    \/ \E page_id \in CachePages : GetPageErr(page_id)
    \/ EvictStep
    \/ GetPageReturn
    \/ \E page_id \in CachePages : MarkDirty(page_id)
    \/ \E fail_at \in 0..MaxPage : Flush(fail_at)

\* PageCache::new(pager, 3) of the tests' setup_cache
TestCapacity == 3

\* the pages the eviction tests get
TestPages == {1, 2, 3, 4}

\* the calls of the cache the tests set up, on the pages the tests get
CacheTestNext ==
    \/ \E page_id \in TestPages : GetPageHit(page_id, FALSE)
    \/ \E page_id \in TestPages : GetPageMiss(page_id, FALSE)
    \/ \E page_id \in TestPages : GetPageErr(page_id)
    \/ EvictStep
    \/ GetPageReturn
    \/ \E page_id \in TestPages : MarkDirty(page_id)
    \/ \E fail_at \in 0..TestCapacity : Flush(fail_at)

DataPages == 1..MaxDataPage

\* the calls of the cache and a caller that keeps handles and writes through them
CacheDataNext ==
    \/ \E page_id \in DataPages, keep \in BOOLEAN : GetPageHit(page_id, keep)
    \/ \E page_id \in DataPages, keep \in BOOLEAN : GetPageMiss(page_id, keep)
    \/ \E page_id \in DataPages : GetPageErr(page_id)
    \/ EvictStep
    \/ GetPageReturn
    \/ \E page_id \in DataPages : MarkDirty(page_id)
    \/ \E fail_at \in 0..MaxDataPage : Flush(fail_at)
    \/ \E h \in handles, k \in 1..PAGE_SIZE : HandleWrite(h, k, writes + 1)
    \/ \E h \in handles : HandleDrop(h)

(***************************************************************************)
(* The pager on its own: pages 0..MaxPagerPage, buffers over PagerBytes.   *)
(***************************************************************************)
PagerPages == 0..MaxPagerPage

PagerBytes == {0, 7}

PagerBuffers == {SubSeq(b, 1, PAGE_SIZE) : b \in [1..PAGE_SIZE -> PagerBytes]}

\* an open that truncates the file
open_truncated(file) == <<>>

\* Pager::open on the path of an earlier Pager: create(true), no truncate
open_file(file) == file

\* pager.write_page(page_id, data) returns Ok
PagerWrite(page_id, data) ==
    /\ pagerFile' = write_page(pagerFile, page_id, data)
    /\ written' = (page_id :> data) @@ written
    /\ last' = Call("write_page", "Ok")
    /\ UNCHANGED <<walVars, pageRead, reopened, threadVars, cacheVars>>

\* pager.read_page(page_id) returns Ok(buffer)
PagerRead(page_id) ==
    /\ pageRead' = [page_id |-> page_id, buffer |-> read_page(pagerFile, page_id)]
    /\ last' = Call("read_page", "Ok")
    /\ UNCHANGED <<walVars, pagerFile, written, reopened, threadVars, cacheVars>>

\* the Pager is dropped and the store opened again
PagerReopen ==
    /\ pagerFile' = open_file(pagerFile)
    /\ reopened' = TRUE
    /\ last' = Call("open", "Ok")
    /\ UNCHANGED <<walVars, pageRead, written, threadVars, cacheVars>>

PagerNext ==
    \/ \E page_id \in PagerPages, data \in PagerBuffers : PagerWrite(page_id, data)
    \/ \E page_id \in PagerPages : PagerRead(page_id)
    \/ PagerReopen

(***************************************************************************)
(* The pager under two threads, call by call and step by step.             *)
(***************************************************************************)
\* a lock that never makes a thread wait
can_lock_always(t) == TRUE

\* self.file.lock() returns for thread t
can_lock(t) == fileLock = 0

\* thread t calls read_page(page_id) or write_page(page_id, data)
ThreadCall(t, op, page_id, data) ==
    /\ threads[t].pc = "idle"
    /\ threads' = [threads EXCEPT ![t] =
                      [pc |-> "lock", op |-> op, page_id |-> page_id, data |-> data,
                       buffer |-> <<>>, views |-> {read_page(pagerFile, page_id)},
                       landed |-> 0]]
    /\ UNCHANGED <<walVars, pagerFile, pageRead, written, reopened, fileLock, filePos,
                   cacheVars, last>>

\* let mut file = self.file.lock().unwrap()
ThreadLock(t) ==
    /\ threads[t].pc = "lock"
    /\ can_lock(t)
    /\ fileLock' = t
    /\ threads' = [threads EXCEPT ![t].pc = "seek"]
    /\ UNCHANGED <<walVars, pagerFile, pageRead, written, reopened, filePos, cacheVars,
                   last>>

\* file.seek(SeekFrom::Start(offset))
ThreadSeek(t) ==
    /\ threads[t].pc = "seek"
    /\ filePos' = threads[t].page_id * PAGE_SIZE
    /\ threads' = [threads EXCEPT ![t].pc = "io"]
    /\ UNCHANGED <<walVars, pagerFile, pageRead, written, reopened, fileLock, cacheVars,
                   last>>

\* file.read(&mut buffer)
ThreadRead(t) ==
    /\ threads[t].pc = "io"
    /\ threads[t].op = "read_page"
    /\ threads' = [threads EXCEPT ![t].pc = "ret",
                                  ![t].buffer = read_at(pagerFile, filePos)]
    /\ filePos' = IF filePos >= Len(pagerFile) THEN filePos
                  ELSE filePos + Min(PAGE_SIZE, Len(pagerFile) - filePos)
    /\ UNCHANGED <<walVars, pagerFile, pageRead, written, reopened, fileLock, cacheVars,
                   last>>

\* file.write_all(data) and file.flush()
ThreadWrite(t) ==
    /\ threads[t].pc = "io"
    /\ threads[t].op = "write_page"
    /\ pagerFile' = write_at(pagerFile, filePos, threads[t].data)
    /\ filePos' = filePos + PAGE_SIZE
    /\ threads' = [u \in Threads |->
                      IF u = t
                      THEN [threads[t] EXCEPT !.pc = "ret", !.landed = filePos]
                      ELSE IF threads[u].pc = "idle" THEN threads[u]
                      ELSE [threads[u] EXCEPT
                               !.views = @ \cup {read_page(pagerFile', threads[u].page_id)}]]
    /\ UNCHANGED <<walVars, pageRead, written, reopened, fileLock, cacheVars, last>>

\* the call returns Ok and its MutexGuard is dropped
ThreadReturn(t) ==
    /\ threads[t].pc = "ret"
    /\ fileLock' = IF fileLock = t THEN 0 ELSE fileLock
    /\ threads' = [threads EXCEPT ![t] = IdleThread]
    /\ UNCHANGED <<walVars, pagerFile, pageRead, written, reopened, filePos, cacheVars,
                   last>>

\* the buffers the threads write: each of one byte value, so that a page made
\* of two of them would be none of them
ThreadBuffers == {[k \in 1..PAGE_SIZE |-> b] : b \in {1, 2}}

PagerThreadsNext ==
    \/ \E t \in Threads, page_id \in PagerPages :
          ThreadCall(t, "read_page", page_id, <<>>)
    \/ \E t \in Threads, page_id \in PagerPages, data \in ThreadBuffers :
          ThreadCall(t, "write_page", page_id, data)
    \/ \E t \in Threads : ThreadLock(t)
    \/ \E t \in Threads : ThreadSeek(t)
    \/ \E t \in Threads : ThreadRead(t)
    \/ \E t \in Threads : ThreadWrite(t)
    \/ \E t \in Threads : ThreadReturn(t)

(***************************************************************************)
(* Specifications.                                                         *)
(***************************************************************************)
\* the log of a new file, beside a pager and a cache that are not used
InitWal == WalInit /\ PagerInit /\ CacheInit({0})

\* the log under completed appends and replay
SpecWal == InitWal /\ [][WalNext]_vars

\* the log when one frame of the file goes bad before the replay
SpecWalCorrupt == InitWal /\ [][WalCorruptNext]_vars

\* the log with an offset remembered and replays from it
SpecWalOffset == InitWal /\ [][WalOffsetNext]_vars

\* the log replayed from the offset of any of its frames
SpecWalAnyOffset == InitWal /\ [][WalAnyOffsetNext]_vars

\* the pager of a new file
SpecPager == InitWal /\ [][PagerNext]_vars

\* the log with an append interrupted by a crash, replayed from the start
SpecWalCrash == InitWal /\ [][WalCrashNext]_vars

\* the pager of a new file under two threads
SpecPagerThreads == InitWal /\ [][PagerThreadsNext]_vars

\* a new cache of any capacity 0..MaxCapacity over the pager of a new file
InitCache == WalInit /\ PagerInit /\ CacheInit(0..MaxCapacity)

\* the page cache: which pages are cached, dirty, and in which order
SpecCache == InitCache /\ [][CacheNext]_vars

\* the page cache with its thread running on: a step of get_page that can be
\* taken is taken
SpecCacheFair ==
    InitCache /\ [][CacheNext]_vars /\ WF_vars(EvictStep) /\ WF_vars(GetPageReturn)

InitCacheTest == WalInit /\ PagerInit /\ CacheInit({TestCapacity})

\* the page cache of the tests: capacity 3, pages 1 to 4
SpecCacheTest == InitCacheTest /\ [][CacheTestNext]_vars

InitCacheData == WalInit /\ PagerInit /\ CacheInit(0..MaxDataCapacity)

\* the page cache and the bytes of its pages
SpecCacheData == InitCacheData /\ [][CacheDataNext]_vars

(***************************************************************************)
(* C1: a log built from offset 0 by completed append and append_checkpoint *)
(* calls replays, from offset 0, to exactly one callback per append call,  *)
(* in append order, with that call's page index and payload, and to no     *)
(* callback for a checkpoint frame.                                        *)
(***************************************************************************)
C1_ReplayRoundTrip ==
    (walPc = "replayed" /\ replayOffset = 0 /\ badFrame = 0)
        => (replayResult = "Ok" /\ seen = appended)

\* two appends to the same page index, a payload of several chunks and an empty
\* one, and a checkpoint frame in the log, replayed
C1_Witness ==
    /\ walPc = "replayed"
    /\ replayOffset = 0
    /\ badFrame = 0
    /\ Len(appended) = 2
    /\ appended[1][1] = appended[2][1]
    /\ Len(appended[1][2]) = MaxChunks * chunk_size
    /\ appended[2][2] = <<>>
    /\ \E k \in DOMAIN frameRec : frameRec[k] = 0
    /\ seen = appended

(***************************************************************************)
(* C2: when exactly one frame of a log of completed appends is invalid     *)
(* (CRC mismatch, bad frame kind, bad magic, over-long payload length),    *)
(* replay from offset 0 returns Ok and delivers, in order, exactly the     *)
(* records all of whose frames precede the bad frame.                      *)
(***************************************************************************)
\* the records all of whose frames precede frame f: a prefix of appended
RecordsBefore(f) ==
    SubSeq(appended, 1,
           Cardinality({r \in 1..Len(appended) :
                           \A k \in DOMAIN frameRec : frameRec[k] = r => k < f}))

\* C2: a replay of a log with one bad frame returns Ok, having delivered the
\* records before the bad frame and nothing else
C2_ReplayStopsAtBadFrame ==
    (walPc = "replayed" /\ replayOffset = 0 /\ badFrame # 0)
        => (replayResult = "Ok" /\ seen = RecordsBefore(badFrame))

\* the bad frame is a later chunk of the second record: the first record is
\* delivered, the second is not
C2_Witness ==
    /\ walPc = "replayed"
    /\ badFrame > 1
    /\ Len(appended) = 2
    /\ frameRec[badFrame] = 2
    /\ frameRec[badFrame - 1] = 2
    /\ seen = <<appended[1]>>

(***************************************************************************)
(* C3: a cached page that is marked dirty is not removed from the cache by *)
(* any step of get_page, mark_dirty or flush: the entries eviction removes *)
(* are not marked dirty.                                                   *)
(***************************************************************************)
C3_DirtyNeverEvicted ==
    [][\A p \in Cached : is_dirty(p) => p \in DOMAIN cache']_vars

\* a miss has returned after its scan requeued a dirty page and evicted a
\* clean one that was got later
C3_Witness ==
    /\ cachePc = "idle"
    /\ last.op = "get_page_miss"
    /\ Cardinality(Cached) = capacity
    /\ lru # recency
    /\ \E p \in Cached : is_dirty(p) /\ p = Head(recency)

(***************************************************************************)
(* C4: with capacity N and no page ever marked dirty, a get_page miss on a *)
(* cache holding N entries evicts exactly one entry, the least recently    *)
(* got one, and returns with exactly N entries cached, the requested page  *)
(* among them.  C4_LruEvicted is the statement for N >= 1; C4_AnyCapacity  *)
(* is the statement for every N.                                           *)
(***************************************************************************)
C4_MissReturns ==
    /\ cachePc = "evict"
    /\ cachePc' = "idle"
    /\ ~everDirty
    /\ Len(pending.recency0) = capacity

C4_Evicted == Elems(pending.recency0) \ DOMAIN cache'

C4_Post ==
    /\ Cardinality(DOMAIN cache') = capacity
    /\ pending.page_id \in DOMAIN cache'
    /\ Cardinality(C4_Evicted) = 1
    /\ pending.recency0 # <<>> => C4_Evicted = {Head(pending.recency0)}

\* C4, for N >= 1: the miss evicts the least recently got entry and no other
C4_LruEvicted == [][(C4_MissReturns /\ capacity >= 1) => C4_Post]_vars

\* C4, for every N
C4_AnyCapacity == [][C4_MissReturns => C4_Post]_vars

\* capacity 2: pages 1 and 2 were got, then 1 again, and the miss on page 3
\* has evicted page 2
C4_Witness ==
    /\ cachePc = "evict"
    /\ ~everDirty
    /\ capacity = 2
    /\ pending.recency0 = <<2, 1>>
    /\ pending.page_id = 3
    /\ Cached = {1, 3}

(***************************************************************************)
(* C5: when flush returns Ok, the pager's content of every page that was   *)
(* cached and marked dirty at the call is the page's cached buffer, and no *)
(* page is marked dirty.                                                   *)
(***************************************************************************)
C5_FlushWritesDirty ==
    [][Flush(0) =>
          /\ dirty_flag' = {}
          /\ \A p \in Cached :
                is_dirty(p) => read_page(pagerFile', p) = heap[cache[p]]]_vars

\* a flush has returned Ok with two pages cached, and the pager holds the
\* bytes the caller wrote into the buffer of one of them
C5_Witness ==
    /\ last.op = "flush"
    /\ last.result = "Ok"
    /\ dirty_flag = {}
    /\ Cardinality(Cached) = 2
    /\ \E p \in Cached :
          /\ heap[cache[p]] # Zeros(PAGE_SIZE)
          /\ read_page(pagerFile, p) = heap[cache[p]]

(***************************************************************************)
(* C6: a page got with get_page(i), written through the returned handle    *)
(* and then flagged with mark_dirty(i) has the handle's bytes stored in    *)
(* the pager when the next flush returns Ok.                               *)
(***************************************************************************)
C6_MarkedHandleFlushed ==
    [][Flush(0) =>
          \A h \in handles :
              h.stage = "marked" => read_page(pagerFile', h.page_id) = heap[h.rc]]_vars

C8_MarkDirtyUncachedNoOp ==
    [][\A p \in CachePages :
          (MarkDirty(p) /\ p \notin Cached)
              => UNCHANGED <<cache, heap, dirty_flag, lru, capacity>>]_vars

(***************************************************************************)
(* C9: get_page always terminates: the eviction scan of a miss ends and    *)
(* get_page returns.                                                       *)
(***************************************************************************)
C9_GetPageTerminates == (cachePc = "evict") ~> (cachePc = "idle")

(***************************************************************************)
(* C10: read_page(i) returns the buffer of the most recent write_page(i,b),*)
(* or PAGE_SIZE zero bytes when page i was never written, also after the   *)
(* store was closed and opened again; write_page(i, b) changes the content *)
(* read for no page other than i.  Stated of the content read_page would   *)
(* return for every page in every state, and of the buffer the last        *)
(* read_page call returned.                                                *)
(***************************************************************************)
C10_Stored(page_id) ==
    IF page_id \in DOMAIN written THEN written[page_id] ELSE Zeros(PAGE_SIZE)

\* C10: every page reads as its last write_page buffer, or as zeros
C10_ReadReturnsLastWrite ==
    /\ \A i \in PagerPages : read_page(pagerFile, i) = C10_Stored(i)
    /\ last.op = "read_page" => pageRead.buffer = C10_Stored(pageRead.page_id)

\* after a reopen, the last call read page 1, which was written, above
\* page 0, which never was
C10_Witness ==
    /\ last.op = "read_page"
    /\ reopened
    /\ DOMAIN written = {1}
    /\ pageRead.page_id = 1
    /\ pageRead.buffer = written[1]
    /\ pageRead.buffer # Zeros(PAGE_SIZE)

(***************************************************************************)
(* C11: with O the value current_offset() returned after some completed    *)
(* appends, a replay from O after any further completed append and         *)
(* append_checkpoint calls delivers exactly the records appended after O   *)
(* was taken, in order and byte-identical, and none appended before.       *)
(***************************************************************************)
C11_ReplayFromSavedOffset ==
    (walPc = "replayed" /\ saved # None /\ badFrame = 0 /\ torn = None
        /\ replayOffset = saved[1].offset)
        => (replayResult = "Ok"
            /\ seen = SubSeq(appended, saved[1].records + 1, Len(appended)))

\* a record was appended, the offset taken, a checkpoint and a record of
\* several chunks appended, and the replay from the offset delivered the
\* second record only
C11_Witness ==
    /\ walPc = "replayed"
    /\ saved # None
    /\ replayOffset = saved[1].offset
    /\ saved[1].offset > 0
    /\ saved[1].records = 1
    /\ Len(appended) = 2
    /\ \E k \in DOMAIN frameRec : k > saved[1].offset \div WAL_PAGE_SIZE /\ frameRec[k] = 0
    /\ Len(appended[2][2]) > chunk_size
    /\ seen = <<appended[2]>>

(***************************************************************************)
(* C12: when two threads call read_page and write_page concurrently, the   *)
(* seek and the read or write of a call run with the file's lock held by   *)
(* that call alone: a read_page(i) returns a content page i had as a whole *)
(* at some moment of the call, never a mix, and a write_page writes at its *)
(* own offset, never at the one another call's seek set.                   *)
(***************************************************************************)
C12_CallsSerialized ==
    \A t \in Threads :
        /\ threads[t].pc \in {"seek", "io", "ret"} => fileLock = t
        /\ (threads[t].pc = "ret" /\ threads[t].op = "read_page")
              => threads[t].buffer \in threads[t].views
        /\ (threads[t].pc = "ret" /\ threads[t].op = "write_page")
              => threads[t].landed = threads[t].page_id * PAGE_SIZE

\* thread 1 has read page 1 while thread 2 waits for the lock to write it,
\* after a write changed the page during thread 1's call
C12_Witness ==
    /\ threads[1].pc = "ret"
    /\ threads[1].op = "read_page"
    /\ threads[1].page_id = 1
    /\ Cardinality(threads[1].views) = 2
    /\ threads[1].buffer \in threads[1].views
    /\ threads[2].pc = "lock"
    /\ threads[2].op = "write_page"
    /\ threads[2].page_id = 1

(***************************************************************************)
(* C13: flush writes the dirty cached pages in the order of the recency    *)
(* queue, least recently used end first.  When the write of page p fails,  *)
(* flush returns the error and attempts no later page: the pages before p  *)
(* in that order are stored and no longer marked dirty, p and the pages    *)
(* after it are not stored and still marked dirty, and the cached entries  *)
(* and the queue are as they were.                                         *)
(***************************************************************************)
C13_IsFlushed(p) == p \in Cached /\ is_dirty(p)

C13_Order == SelectSeq(lru, C13_IsFlushed)

C13_Post(f) ==
    /\ last'.result = "Err"
    /\ \A k \in 1..Len(C13_Order) :
          LET p == C13_Order[k]
          IN  IF k < f
              THEN /\ p \notin dirty_flag'
                   /\ read_page(pagerFile', p) = heap[cache[p]]
              ELSE /\ p \in dirty_flag'
                   /\ read_page(pagerFile', p) = read_page(pagerFile, p)
    /\ cache' = cache
    /\ heap' = heap
    /\ lru' = lru

C13_FlushFailure == [][\A f \in 1..Len(lru) : Flush(f) => C13_Post(f)]_vars

\* a flush has failed at the second of two dirty pages: the first in the queue
\* is stored and clean, the second is still dirty and its bytes are not stored
C13_Witness ==
    /\ last.op = "flush"
    /\ last.result = "Err"
    /\ Len(lru) = 2
    /\ Elems(lru) = Cached
    /\ ~is_dirty(lru[1])
    /\ is_dirty(lru[2])
    /\ heap[cache[lru[1]]] # Zeros(PAGE_SIZE)
    /\ read_page(pagerFile, lru[1]) = heap[cache[lru[1]]]
    /\ read_page(pagerFile, lru[2]) # heap[cache[lru[2]]]

(***************************************************************************)
(* C14: a replay that is reassembling a record of one page when a valid    *)
(* Data frame of another page arrives (the frames a crash left of an       *)
(* interrupted append, followed by a record of another page) drops the     *)
(* chunks it collected: there is no callback for the incomplete record,    *)
(* and the record of the other page, like every completed record, is       *)
(* delivered with its own payload.                                         *)
(***************************************************************************)
C14_OtherPageFollows ==
    /\ torn # None
    /\ torn[1].aligned
    /\ Len(appended) > torn[1].records
    /\ appended[torn[1].records + 1][1] # torn[1].page_id

C14_IncompleteDiscarded ==
    (walPc = "replayed" /\ replayOffset = 0 /\ badFrame = 0 /\ C14_OtherPageFollows)
        => seen = appended

\* an append to page 1 was interrupted after the first of its frames, a record
\* of two chunks was then appended to page 2, and the replay has delivered it
C14_Witness ==
    /\ walPc = "replayed"
    /\ replayOffset = 0
    /\ C14_OtherPageFollows
    /\ torn[1].page_id = 1
    /\ torn[1].records = 0
    /\ appended = <<(<<2, Payload(chunk_size + 1)>>)>>
    /\ seen = appended

(***************************************************************************)
(* C19: after an append was interrupted by a crash that left some of its   *)
(* frames, or part of a frame, in the log, a replay from offset 0 delivers *)
(* every record whose append completed, before the crash or after the log  *)
(* was opened again, with its own bytes and exactly once (a callback with  *)
(* the page and bytes of the interrupted append itself is counted as the   *)
(* interrupted append's).                                                  *)
(***************************************************************************)
C19_Count(records, r) == Cardinality({k \in 1..Len(records) : records[k] = r})

C19_CompletedDelivered ==
    (walPc = "replayed" /\ replayOffset = 0 /\ badFrame = 0 /\ torn # None)
        => \A k \in 1..Len(appended) :
              IF appended[k] = <<torn[1].page_id, torn[1].data>>
              THEN C19_Count(seen, appended[k]) >= C19_Count(appended, appended[k])
              ELSE C19_Count(seen, appended[k]) = C19_Count(appended, appended[k])

(***************************************************************************)
(* C18: in a log written by completed appends only, a replay from the      *)
(* offset of any frame, one in the middle of a record included, calls back *)
(* only with the page and the whole payload of one append call, never with *)
(* chunks of two appends or with a part of a payload.                      *)
(***************************************************************************)
C18_DeliversOnlyAppended ==
    (walPc = "replayed" /\ badFrame = 0 /\ torn = None)
        => \A k \in 1..Len(seen) : seen[k] \in Elems(appended)

(***************************************************************************)
(* C15: the entry an eviction removes is the clean cached entry that is    *)
(* nearest the front of the recency queue as the scan found it.            *)
(* C15_EvictsFirstCleanOfQueue says so for the queue, in which an entry is *)
(* moved to the back by a get_page access and also by a scan that found it *)
(* dirty; C15_EvictsOldestAccessed is the statement with the entries       *)
(* ranked by their most recent get_page access alone.                      *)
(***************************************************************************)
C15_Evicts(victim) ==
    /\ cachePc = "evict"
    /\ victim \in Cached
    /\ victim \notin DOMAIN cache'

\* page p comes before page q in the sequence order
C15_Before(order, p, q) ==
    \E j, k \in 1..Len(order) : j < k /\ order[j] = p /\ order[k] = q

C15_EvictsFirstCleanOfQueue ==
    [][\A victim \in Cached :
          C15_Evicts(victim)
              => /\ ~is_dirty(victim)
                 /\ \A p \in Cached :
                       C15_Before(pending.lru0, p, victim) => is_dirty(p)]_vars

C15_EvictsOldestAccessed ==
    [][\A victim \in Cached :
          C15_Evicts(victim)
              => /\ ~is_dirty(victim)
                 /\ \A p \in Cached :
                       C15_Before(recency, p, victim) => is_dirty(p)]_vars

\* a miss has evicted a clean page although a clean page got before it, which
\* an earlier scan had found dirty and requeued, is still cached
C15_Witness ==
    /\ cachePc = "evict"
    /\ Cardinality(Cached) = capacity
    /\ \E victim \in Elems(pending.lru0) \ Cached :
          \E p \in Cached :
              /\ ~is_dirty(p)
              /\ C15_Before(pending.recency0, p, victim)
              /\ C15_Before(pending.lru0, victim, p)

(***************************************************************************)
(* C16: with capacity 3, after get_page(1), mark_dirty(1), get_page(2),    *)
(* get_page(3), get_page(4), page 1 is still cached.  C16_CleanPageEvicted *)
(* says that the cache then holds the 3 entries 1, 3 and 4, page 2 having  *)
(* been evicted; C16_HoldsFourEntries that it holds the 4 entries 1, 2, 3  *)
(* and 4.                                                                  *)
(***************************************************************************)
\* get_page(4) returns, called when pages 1, 2, 3 were cached, got in that
\* order, and page 1 alone was marked dirty
C16_Scenario ==
    /\ cachePc = "evict"
    /\ cachePc' = "idle"
    /\ capacity = TestCapacity
    /\ pending.page_id = 4
    /\ pending.lru0 = <<1, 2, 3, 4>>
    /\ pending.recency0 = <<1, 2, 3>>
    /\ pending.dirty0 = {1}

C16_CleanPageEvicted == [][C16_Scenario => DOMAIN cache' = {1, 3, 4}]_vars

C16_HoldsFourEntries ==
    [][C16_Scenario => (1 \in DOMAIN cache' /\ DOMAIN cache' = {1, 2, 3, 4})]_vars

\* the get_page(4) of the scenario has returned
C16_Witness ==
    /\ cachePc = "idle"
    /\ last.op = "get_page_miss"
    /\ last.result = "Ok"
    /\ capacity = TestCapacity
    /\ Cached = {1, 3, 4}
    /\ dirty_flag = {1}
    /\ lru = <<3, 4, 1>>
    /\ recency = <<1, 3, 4>>

(***************************************************************************)
(* C17: when get_page(i) returns Ok, page i is cached and is the most      *)
(* recently used entry: get_page does not evict the page it returns.       *)
(***************************************************************************)
C17_CachedAndNewest(page_id) ==
    /\ page_id \in DOMAIN cache'
    /\ recency' # <<>>
    /\ recency'[Len(recency')] = page_id

C17_ReturnedPageCached ==
    [][/\ (cachePc = "evict" /\ cachePc' = "idle") => C17_CachedAndNewest(pending.page_id)
       /\ \A page_id \in CachePages :
             GetPageHit(page_id, FALSE) => C17_CachedAndNewest(page_id)]_vars

(***************************************************************************)
(* C20: after any sequence of get_page, mark_dirty and flush calls, and at *)
(* every step of get_page's eviction scan, the recency queue holds exactly *)
(* the page indices that are keys of the cache table, each of them once.   *)
(***************************************************************************)
C20_QueueIsCacheKeys == Elems(lru) = Cached /\ Len(lru) = Cardinality(Cached)

\* a hit has moved a page to the back of a queue of two, and a miss evicted
\* the other page
C20_Witness ==
    /\ cachePc = "idle"
    /\ capacity = 2
    /\ last.op = "get_page_miss"
    /\ lru = <<1, 3>>
    /\ Cached = {1, 3}

=============================================================================
